---- MODULE Spec2Model ----
(***************************************************************************)
(* Model of ghia, the GitHub issue assigner: the core                      *)
(* (src/ghia/github.py), the web application (src/ghia/web.py) and the     *)
(* command line (src/ghia/cli.py).                                         *)
(*                                                                         *)
(* One Issue object is followed through its life: create_issue builds it   *)
(* from a payload, process_issue (or, as in the unit tests, a direct call  *)
(* of apply_strategy) resolves its assignees and the fallback label,       *)
(* update_github sends the PATCH, and a later run builds a new Issue from  *)
(* what GitHub then holds.                                                 *)
(*                                                                         *)
(* Texts are TLA+ strings; logins are compared, case-folded and sorted by  *)
(* code point as Python does it.  The iteration order of a Python set of   *)
(* strings depends on the per-process hash seed, so every place where the  *)
(* code iterates a set takes an arbitrary order of its elements.           *)
(***************************************************************************)
EXTENDS Integers, Sequences, FiniteSets, TLC

VARIABLES
    issue,      \* the Issue object (github.py:17-40)
    rules,      \* the rules dictionary, in insertion order (validators.py:99-121)
    strategy,   \* "append", "set" or "change" (cli.py:246-248)
    remote,     \* what GitHub holds for the issue: its labels and assignees
    pc,         \* where the Issue object is in its life
    old,        \* the Issue as create_issue built it (the original snapshot)
    users,      \* the matched logins handed to apply_strategy
    echoes,     \* the list of messages the last call returned
    requests,   \* the PATCH bodies sent for this Issue object; the exchanges with
                \* GitHub (request and status) in the web and command-line runs
    prev,       \* the flags of the run before this one, if there was one
    request,    \* the HTTP request the web application received (web.py:154)
    auth,       \* config["auth"] of the web application (web.py:40-72)
    response,   \* the HTTP response of the web application, once it answered
    argv,       \* the arguments of the command line (cli.py:243-259)
    done,       \* the positions of the reposlugs whose processing has ended
    stdout,     \* the lines printed to the standard output
    stderr,     \* the lines printed to the standard error
    exit_code,  \* the exit code of the command, once it has ended
    tasks,      \* the tasks of the event loop of the async mode (cli.py:265-267)
    inflight    \* the PATCH requests sent and not answered yet (async mode)

corevars == <<issue, rules, strategy, remote, pc, old, users, echoes, requests, prev>>
webvars == <<request, auth, response>>
clivars == <<argv, done, stdout, stderr, exit_code, tasks, inflight>>
vars == <<corevars, webvars, clivars>>

\* No request is being served; no command is running.
NoWeb == request = <<>> /\ auth = <<>> /\ response = <<>>
NoCli ==
    /\ argv = <<>> /\ done = {} /\ stdout = <<>> /\ stderr = <<>>
    /\ exit_code = <<>> /\ tasks = {} /\ inflight = {}

(***************************************************************************)
(* Bounds of the model.                                                    *)
(***************************************************************************)
MaxUsers == 2       \* longest list of users handed directly to apply_strategy
MaxAssignees == 2   \* most assignees on the issue GitHub holds at the start
MaxPatterns == 1    \* most patterns in one list of a rule handed to match_rule
MaxRepos == 2       \* most reposlugs on the command line

(***************************************************************************)
(* Texts.                                                                  *)
(***************************************************************************)
Range(s) == {s[k] : k \in DOMAIN s}

\* The characters the model's texts are written in, by run of consecutive
\* code points: digits from 48, capital letters from 65, small letters from 97.
Digits == "0123456789"
Upper == "ABCDEFGHIJKLMNOPQRSTUVWXYZ"
Lower == "abcdefghijklmnopqrstuvwxyz"

Chars(run) == {SubSeq(run, k, k) : k \in 1..Len(run)}
IndexIn(run, c) == CHOOSE k \in 1..Len(run) : SubSeq(run, k, k) = c

\* Code point of a one-character text (Python's ord), as a table.
ord ==
    [c \in Chars(Lower) |-> 96 + IndexIn(Lower, c)]
    @@ [c \in Chars(Upper) |-> 64 + IndexIn(Upper, c)]
    @@ [c \in Chars(Digits) |-> 47 + IndexIn(Digits, c)]
    @@ [c \in {" "} |-> 32] @@ [c \in {"-"} |-> 45] @@ [c \in {"."} |-> 46]
    @@ [c \in {"_"} |-> 95]

\* str.casefold on one ASCII character, as a table: a capital letter becomes
\* its small letter, every other character stays.
casefold_char ==
    [c \in Chars(Upper) |-> LET k == IndexIn(Upper, c) IN SubSeq(Lower, k, k)]
    @@ [c \in DOMAIN ord |-> c]

RECURSIVE casefold(_)
casefold(s) ==
    IF Len(s) = 0 THEN s ELSE casefold_char[Head(s)] \o casefold(Tail(s))

\* Python's a < b on str: by code point, a proper prefix is smaller.
RECURSIVE str_lt(_, _)
str_lt(a, b) ==
    IF Len(b) = 0 THEN FALSE
    ELSE IF Len(a) = 0 THEN TRUE
    ELSE IF Head(a) = Head(b) THEN str_lt(Tail(a), Tail(b))
    ELSE ord[Head(a)] < ord[Head(b)]

\* The orders in which a set may be iterated.
RECURSIVE Orders(_)
Orders(S) ==
    IF S = {} THEN {<<>>}
    ELSE UNION {{<<x>> \o rest : rest \in Orders(S \ {x})} : x \in S}

\* One listing of a set, for where the order of the list has no effect.
Listing(S) == CHOOSE order \in Orders(S) : TRUE


(***************************************************************************)
(* The Issue class and create_issue.                                       *)
(***************************************************************************)
\* The value None, which the payload's "body" holds when the issue has no
\* description (JSON null).  It is no text: the model writes it as a string
\* that no title, body, label or pattern of the model equals, and no text
\* operator is applied to it.
None == "<None>"

\* Issue.__init__: the assignees become a set, both flags start False.
Issue(number, url, html_url, title, body, labels, assignees) ==
    [number |-> number, url |-> url, html_url |-> html_url,
     title |-> title, body |-> body,
     labels |-> labels,
     assignees |-> Range(assignees),
     update_labels |-> FALSE,
     update_assignees |-> FALSE]

\* create_issue: reads the fields of the JSON payload.
create_issue(payload) ==
    LET labels == [k \in DOMAIN payload.labels |-> payload.labels[k].name]
        assignees == [k \in DOMAIN payload.assignees |-> payload.assignees[k].login]
    IN Issue(payload.number, payload.url, payload.html_url, payload.title,
             payload.body, labels, assignees)

\* A faulty add_assignees: the given logins replace the set.
add_assignees_replacing(iss, assignees) ==
    [iss EXCEPT !.assignees = Range(assignees)]

\* Issue.add_assignees: adds every given login to the set.
add_assignees(iss, assignees) ==
    [iss EXCEPT !.assignees = @ \cup Range(assignees)]

(***************************************************************************)
(* match_rule.  A pattern is the text compiled with re.IGNORECASE; the     *)
(* patterns of the model hold no regex metacharacters, so regex.search is  *)
(* the search for the pattern's text anywhere in the subject, letter case  *)
(* ignored.                                                                *)
(***************************************************************************)
search(regex, subject) ==
    \E k \in 1..(Len(subject) - Len(regex) + 1) :
        casefold(SubSeq(subject, k, k + Len(regex) - 1)) = casefold(regex)

\* A faulty match_rule: the "text" patterns are tried on the title.
match_rule_text_on_title(iss, rule) ==
    \/ \E k \in DOMAIN rule.title : search(rule.title[k], iss.title)
    \/ \E k \in DOMAIN rule.text : search(rule.text[k], iss.title)
    \/ \E k \in DOMAIN rule.label : \E l \in DOMAIN iss.labels :
            search(rule.label[k], iss.labels[l])
    \/ \E k \in DOMAIN rule.any :
            \/ search(rule.any[k], iss.title)
            \/ search(rule.any[k], iss.body)
            \/ \E l \in DOMAIN iss.labels : search(rule.any[k], iss.labels[l])

\* The value match_rule returns when it returns (lines 106-122); when the
\* body is None that is a return before any search of the body.
match_rule(iss, rule) ==
    \/ \E k \in DOMAIN rule.title : search(rule.title[k], iss.title)
    \/ \E k \in DOMAIN rule.text : search(rule.text[k], iss.body)
    \/ \E k \in DOMAIN rule.label : \E l \in DOMAIN iss.labels :
            search(rule.label[k], iss.labels[l])
    \/ \E k \in DOMAIN rule.any :
            \/ search(rule.any[k], iss.title)
            \/ search(rule.any[k], iss.body)
            \/ \E l \in DOMAIN iss.labels : search(rule.any[k], iss.labels[l])

\* match_rule raises TypeError: regex.search(issue.body) with the body None
\* (lines 110 and 117).  The loops run in the order title, text, label, any
\* and return at the first match; the body is searched by the first "text"
\* pattern, and by the first "any" pattern when it does not match the title.
match_rule_raises(iss, rule) ==
    /\ iss.body = None
    /\ ~\E k \in DOMAIN rule.title : search(rule.title[k], iss.title)
    /\ \/ rule.text # <<>>
       \/ /\ ~\E k \in DOMAIN rule.label : \E l \in DOMAIN iss.labels :
                    search(rule.label[k], iss.labels[l])
          /\ rule.any # <<>>
          /\ ~search(rule.any[1], iss.title)

(***************************************************************************)
(* apply_strategy.                                                         *)
(***************************************************************************)
\* A faulty sort key: the login itself, letter case kept.
sort_key_plain(s) == s

\* The sort key of line 158: lambda s: s.casefold().
sort_key(s) == casefold(s)

\* One step of Python's stable sort: x goes behind every element whose key
\* is not greater than its own.
insert_sorted(s, x) ==
    LET n == Cardinality({k \in DOMAIN s : ~ str_lt(sort_key(x), sort_key(s[k]))})
    IN SubSeq(s, 1, n) \o <<x>> \o SubSeq(s, n + 1, Len(s))

\* sorted(iterable, key=...): stable, so elements of equal key keep the order
\* in which the iterable yielded them.
RECURSIVE sorted(_)
sorted(seq) ==
    IF seq = <<>> THEN <<>>
    ELSE insert_sorted(sorted(SubSeq(seq, 1, Len(seq) - 1)), seq[Len(seq)])

\* A faulty "Perform changes": "set" adds the users whatever the assignees are.
perform_changes_set_always(strat, iss, us) ==
    IF strat = "append" THEN add_assignees(iss, us)
    ELSE IF strat = "set" THEN add_assignees(iss, us)
    ELSE [iss EXCEPT !.update_assignees = TRUE, !.assignees = Range(us)]

\* A faulty "Perform changes": "change" keeps the old assignees too.
perform_changes_change_keeps(strat, iss, us) ==
    IF strat = "append" THEN add_assignees(iss, us)
    ELSE IF strat = "set"
         THEN IF Cardinality(iss.assignees) = 0 THEN add_assignees(iss, us) ELSE iss
    ELSE [iss EXCEPT !.update_assignees = TRUE, !.assignees = @ \cup Range(us)]

\* "Perform changes" (lines 143-152): the issue with its new assignees.
perform_changes(strat, iss, us) ==
    IF strat = "append" THEN add_assignees(iss, us)
    ELSE IF strat = "set"
         THEN IF Cardinality(iss.assignees) = 0 THEN add_assignees(iss, us) ELSE iss
    ELSE [iss EXCEPT !.update_assignees = TRUE, !.assignees = Range(us)]

\* A faulty symbol of a login: "+" and "-" change places.
symbol_swapped(user, old_assignees, new_assignees) ==
    IF user \in new_assignees
    THEN IF user \in old_assignees THEN "=" ELSE "-"
    ELSE "+"

\* The symbol of a login (lines 159-167).
symbol_of(user, old_assignees, new_assignees) ==
    IF user \in new_assignees
    THEN IF user \in old_assignees THEN "=" ELSE "+"
    ELSE "-"

\* click.style keeps the text and wraps it in colour codes, which click.echo
\* drops when the output is no terminal; a message is modelled as printed.
style(text) == text

\* A faulty "Prepare output": update_assignees is raised at every login.
RECURSIVE prepare_output_flags_all(_, _, _, _)
prepare_output_flags_all(seq, old_assignees, iss, out) ==
    IF seq = <<>> THEN [issue |-> iss, echoes |-> out]
    ELSE LET user == Head(seq)
             symbol == style(symbol_of(user, old_assignees, iss.assignees))
             iss2 == [iss EXCEPT !.update_assignees = TRUE]
         IN prepare_output_flags_all(Tail(seq), old_assignees, iss2,
                           Append(out, "   " \o symbol \o " " \o user))

\* "Prepare output" (lines 157-168): walks the sorted logins, raises
\* update_assignees at every login that is not in both sets, and collects
\* one message per login.
RECURSIVE prepare_output(_, _, _, _)
prepare_output(seq, old_assignees, iss, out) ==
    IF seq = <<>> THEN [issue |-> iss, echoes |-> out]
    ELSE LET user == Head(seq)
             symbol == style(symbol_of(user, old_assignees, iss.assignees))
             kept == user \in iss.assignees /\ user \in old_assignees
             iss2 == IF kept THEN iss ELSE [iss EXCEPT !.update_assignees = TRUE]
         IN prepare_output(Tail(seq), old_assignees, iss2,
                           Append(out, "   " \o symbol \o " " \o user))

\* apply_strategy with the set all_assignees iterated in the order `order`.
apply_strategy_in(strat, iss, us, order) ==
    prepare_output(sorted(order), iss.assignees, perform_changes(strat, iss, us), <<>>)

\* apply_strategy: every result the call can give, one per iteration order
\* of all_assignees.  A result is the issue as left and the list returned.
apply_strategy(strat, iss, us) ==
    LET old_assignees == iss.assignees
        new_assignees == perform_changes(strat, iss, us).assignees
        all_assignees == old_assignees \cup new_assignees
    IN {apply_strategy_in(strat, iss, us, order) : order \in Orders(all_assignees)}

(***************************************************************************)
(* process_issue.                                                          *)
(***************************************************************************)
\* The rules dictionary is a sequence of entries [key, value] with distinct
\* keys, in insertion order.  The value of the key "fallback" is the label;
\* the value of any other key is a rule.
HasKey(rs, key) == \E k \in DOMAIN rs : rs[k].key = key
Lookup(rs, key) == rs[CHOOSE k \in DOMAIN rs : rs[k].key = key].value

\* Lines 217-219: the dictionary without the key "fallback".
RECURSIVE without_fallback(_)
without_fallback(rs) ==
    IF rs = <<>> THEN <<>>
    ELSE IF Head(rs).key # "fallback"
         THEN <<Head(rs)>> \o without_fallback(Tail(rs))
         ELSE without_fallback(Tail(rs))

\* Lines 214-222: the logins whose rule matches, in dictionary order.
RECURSIVE matching_users(_, _)
matching_users(iss, rs) ==
    IF rs = <<>> THEN <<>>
    ELSE IF match_rule(iss, Head(rs).value)
         THEN <<Head(rs).key>> \o matching_users(iss, Tail(rs))
         ELSE matching_users(iss, Tail(rs))

\* A faulty search for users: the key "fallback" is taken for a login.
find_users_with_fallback(iss, rs) ==
    matching_users(iss, without_fallback(rs))
        \o (IF HasKey(rs, "fallback") THEN <<"fallback">> ELSE <<>>)

find_users(iss, rs) == matching_users(iss, without_fallback(rs))

\* The loop of lines 220-222 ends in the TypeError of a match_rule call.
find_users_raises(iss, rs) ==
    \E k \in DOMAIN without_fallback(rs) :
        match_rule_raises(iss, without_fallback(rs)[k].value)

\* A faulty fallback step: it runs whether or not an assignee is left.
perform_fallback_always(r, rs) ==
    IF HasKey(rs, "fallback")
    THEN LET label == Lookup(rs, "fallback")
             fallback == style("FALLBACK")
         IN IF label \in Range(r.issue.labels)
            THEN [r EXCEPT !.echoes = Append(@,
                    "   " \o fallback \o ": already has label \"" \o label \o "\"")]
            ELSE [r EXCEPT !.issue.update_labels = TRUE,
                           !.issue.labels = Append(@, label),
                           !.echoes = Append(@,
                    "   " \o fallback \o ": added label \"" \o label \o "\"")]
    ELSE r

\* A faulty fallback step: the label is appended without the membership test.
perform_fallback_no_test(r, rs) ==
    IF Cardinality(r.issue.assignees) = 0 /\ HasKey(rs, "fallback")
    THEN LET label == Lookup(rs, "fallback")
             fallback == style("FALLBACK")
         IN [r EXCEPT !.issue.update_labels = TRUE,
                      !.issue.labels = Append(@, label),
                      !.echoes = Append(@,
                    "   " \o fallback \o ": added label \"" \o label \o "\"")]
    ELSE r

\* A faulty fallback step: its message is put in front of the messages.
perform_fallback_echo_first(r, rs) ==
    IF Cardinality(r.issue.assignees) = 0 /\ HasKey(rs, "fallback")
    THEN LET label == Lookup(rs, "fallback")
             fallback == style("FALLBACK")
         IN IF label \in Range(r.issue.labels)
            THEN [r EXCEPT !.echoes = <<"   " \o fallback
                    \o ": already has label \"" \o label \o "\"">> \o @]
            ELSE [r EXCEPT !.issue.update_labels = TRUE,
                           !.issue.labels = Append(@, label),
                           !.echoes = <<"   " \o fallback
                    \o ": added label \"" \o label \o "\"">> \o @]
    ELSE r

\* A faulty fallback step: the label is put in front of the labels.
perform_fallback_prepends(r, rs) ==
    IF Cardinality(r.issue.assignees) = 0 /\ HasKey(rs, "fallback")
    THEN LET label == Lookup(rs, "fallback")
             fallback == style("FALLBACK")
         IN IF label \in Range(r.issue.labels)
            THEN [r EXCEPT !.echoes = Append(@,
                    "   " \o fallback \o ": already has label \"" \o label \o "\"")]
            ELSE [r EXCEPT !.issue.update_labels = TRUE,
                           !.issue.labels = <<label>> \o @,
                           !.echoes = Append(@,
                    "   " \o fallback \o ": added label \"" \o label \o "\"")]
    ELSE r

\* "Perform fallback if necessary" (lines 227-239) on a result r of
\* apply_strategy; a missing key "fallback" is the KeyError that is passed.
perform_fallback(r, rs) ==
    IF Cardinality(r.issue.assignees) = 0 /\ HasKey(rs, "fallback")
    THEN LET label == Lookup(rs, "fallback")
             fallback == style("FALLBACK")
         IN IF label \in Range(r.issue.labels)
            THEN [r EXCEPT !.echoes = Append(@,
                    "   " \o fallback \o ": already has label \"" \o label \o "\"")]
            ELSE [r EXCEPT !.issue.update_labels = TRUE,
                           !.issue.labels = Append(@, label),
                           !.echoes = Append(@,
                    "   " \o fallback \o ": added label \"" \o label \o "\"")]
    ELSE r

\* The issue, the messages and the rules dictionary as a call leaves them.
Outcome(r, rs) == [issue |-> r.issue, echoes |-> r.echoes, rules |-> rs]

\* A faulty process_issue: the key "fallback" is deleted from the rules.
process_issue_pops_fallback(iss, strat, rs) ==
    {Outcome(perform_fallback(r, rs), without_fallback(rs)) :
        r \in apply_strategy(strat, iss, find_users(iss, rs))}

\* process_issue: every result a call that returns can give.  The rules are
\* only read: without_fallback is a new dictionary.
process_issue(iss, strat, rs) ==
    {Outcome(perform_fallback(r, rs), rs) :
        r \in apply_strategy(strat, iss, find_users(iss, rs))}

(***************************************************************************)
(* Issue.serialize and update_github.                                      *)
(***************************************************************************)
\* A faulty serialize: the key "labels" is always there.
serialize_always_labels(iss, order) ==
    LET keys == {"labels"}
                \cup (IF iss.update_assignees THEN {"assignees"} ELSE {})
    IN [k \in keys |-> IF k = "labels" THEN iss.labels ELSE order]

\* Issue.serialize with the set of assignees listed in the order `order`:
\* a dictionary that holds a key iff its flag is set.
serialize(iss, order) ==
    LET keys == (IF iss.update_labels THEN {"labels"} ELSE {})
                \cup (IF iss.update_assignees THEN {"assignees"} ELSE {})
    IN [k \in keys |-> IF k = "labels" THEN iss.labels ELSE order]

\* update_github: whether a PATCH request is sent at all (line 255).
sends_patch(iss) == iss.update_labels \/ iss.update_assignees

\* What GitHub holds after a PATCH that succeeded: the fields present in the
\* body replace the issue's.
patched(held, body) ==
    [labels |-> IF "labels" \in DOMAIN body THEN body.labels ELSE held.labels,
     assignees |-> IF "assignees" \in DOMAIN body THEN Range(body.assignees)
                   ELSE held.assignees]

(***************************************************************************)
(* The inputs.                                                             *)
(***************************************************************************)
LoginPool == {"Codertocat", "Assignee1", "anna", "Anna"}
RuleKeys == {"Assignee1", "Anna"}
LabelPool == {"bug", "Need assignment"}
FallbackLabels == {"Need assignment", "need assignment"}
Strategies == {"append", "set", "change"}

\* All lists over S no longer than n, repeats allowed.
AnyLists(S, n) == UNION {[1..m -> S] : m \in 0..n}

IssueTexts ==
    {[number |-> 1,
      url |-> "https://api.github.com/repos/Codertocat/Hello-World/issues/1",
      html_url |-> "https://github.com/Codertocat/Hello-World/issues/1",
      title |-> "Spelling error", body |-> "...commit..."],
     [number |-> 2,
      url |-> "https://api.github.com/repos/Codertocat/Hello-World/issues/2",
      html_url |-> "https://github.com/Codertocat/Hello-World/issues/2",
      title |-> "Feature request", body |-> ""],
     [number |-> 3,
      url |-> "https://api.github.com/repos/Codertocat/Hello-World/issues/3",
      html_url |-> "https://github.com/Codertocat/Hello-World/issues/3",
      title |-> "Spelling error", body |-> None]}

\* The JSON object GitHub gives for an issue.
Payload(text, labels, assignees) ==
    [number |-> text.number, url |-> text.url, html_url |-> text.html_url,
     title |-> text.title, body |-> text.body,
     labels |-> [k \in DOMAIN labels |-> [name |-> labels[k]]],
     assignees |-> [k \in DOMAIN assignees |-> [login |-> assignees[k]]]]

\* A rule as validate_rules builds it: four lists of compiled patterns.
Rule(title, text, label, any) ==
    [title |-> title, text |-> text, label |-> label, any |-> any]

\* The rule of each login of the rules file.
RuleOf(login) ==
    IF login = "Assignee1" THEN Rule(<<>>, <<"commit">>, <<>>, <<>>)
    ELSE Rule(<<"REQUEST">>, <<>>, <<"bug">>, <<"need">>)

\* The dictionaries validate_rules can return: the key "fallback" first when
\* the file has a fallback section, then one rule per login.
RuleSets ==
    LET orders == UNION {Orders(K) : K \in SUBSET RuleKeys}
        entries(keys) == [k \in DOMAIN keys |-> [key |-> keys[k], value |-> RuleOf(keys[k])]]
    IN {entries(keys) : keys \in orders}
       \cup {<<[key |-> "fallback", value |-> l]>> \o entries(keys) :
                l \in FallbackLabels, keys \in orders}

(***************************************************************************)
(* The life of an Issue object under process_issue.                        *)
(***************************************************************************)
\* The issues GitHub can hold at the start.
InitialLabels == UNION {Orders(L) : L \in SUBSET LabelPool}
InitialAssignees == {A \in SUBSET LoginPool : Cardinality(A) <= MaxAssignees}

Init ==
    \E text \in IssueTexts, labels \in InitialLabels, assignees \in InitialAssignees :
        /\ issue = create_issue(Payload(text, labels, Listing(assignees)))
        /\ old = issue
        /\ remote = [labels |-> labels, assignees |-> assignees]
        /\ rules \in RuleSets
        /\ strategy \in Strategies
        /\ pc = "created"
        /\ users = <<>>
        /\ echoes = <<>>
        /\ requests = <<>>
        /\ prev = <<>>
        /\ NoWeb /\ NoCli

\* process_issue(issue, strategy, rules) on the Issue just created.  A
\* TypeError leaves the call before apply_strategy, with the issue as it was.
ProcessIssue ==
    /\ pc = "created"
    /\ IF find_users_raises(issue, rules)
       THEN /\ pc' = "TypeError"
            /\ UNCHANGED <<issue, echoes, users, rules>>
       ELSE /\ \E r \in process_issue(issue, strategy, rules) :
                /\ issue' = r.issue
                /\ echoes' = r.echoes
                /\ rules' = r.rules
            /\ users' = find_users(issue, rules)
            /\ pc' = "processed"
    /\ UNCHANGED <<strategy, remote, old, requests, prev, webvars, clivars>>

\* update_github(issue, session): no request when neither flag is set;
\* otherwise one PATCH, which GitHub applies or answers with an error status
\* (raise_for_status then raises HTTPError).
UpdateGithub ==
    /\ pc = "processed"
    /\ IF sends_patch(issue)
       THEN \E order \in Orders(issue.assignees) :
                LET body == serialize(issue, order) IN
                /\ requests' = Append(requests, body)
                /\ \/ /\ remote' = patched(remote, body)
                      /\ pc' = "updated"
                   \/ /\ remote' = remote
                      /\ pc' = "failed"
       ELSE /\ pc' = "updated"
            /\ UNCHANGED <<remote, requests>>
    /\ UNCHANGED <<issue, rules, strategy, old, users, echoes, prev,
                   webvars, clivars>>

\* A later run, after a run whose result reached GitHub: create_issue on the
\* payload GitHub now gives for the issue.  (After a PATCH that failed GitHub
\* holds what it held before, which is a state a behaviour can start in.)
\* The order of the payload's list of assignees has no effect on the Issue.
CreateIssue ==
    /\ pc = "updated"
    /\ issue' = create_issue(Payload(issue, remote.labels, Listing(remote.assignees)))
    /\ old' = issue'
    /\ pc' = "created"
    /\ users' = <<>>
    /\ echoes' = <<>>
    /\ requests' = <<>>
    /\ prev' = <<[update_labels |-> issue.update_labels,
                  update_assignees |-> issue.update_assignees]>>
    /\ UNCHANGED <<rules, strategy, remote, webvars, clivars>>

Next == ProcessIssue \/ UpdateGithub \/ CreateIssue

Spec == Init /\ [][Next]_vars

(***************************************************************************)
(* apply_strategy called on its own, as the unit tests call it, with any   *)
(* list of users.                                                          *)
(***************************************************************************)
UserLists == AnyLists(LoginPool, MaxUsers)

InitStrategy ==
    \E text \in IssueTexts, assignees \in InitialAssignees :
        /\ issue = create_issue(Payload(text, <<"bug">>, Listing(assignees)))
        /\ old = issue
        /\ remote = [labels |-> <<"bug">>, assignees |-> assignees]
        /\ rules = <<>>
        /\ strategy \in Strategies
        /\ pc = "created"
        /\ users = <<>>
        /\ echoes = <<>>
        /\ requests = <<>>
        /\ prev = <<>>
        /\ NoWeb /\ NoCli

\* apply_strategy(strategy, issue, users) on the Issue just created.
ApplyStrategy ==
    /\ pc = "created"
    /\ \E us \in UserLists :
        /\ users' = us
        /\ \E r \in apply_strategy(strategy, issue, us) :
            /\ issue' = r.issue
            /\ echoes' = r.echoes
    /\ pc' = "applied"
    /\ UNCHANGED <<rules, strategy, remote, old, requests, prev, webvars, clivars>>

NextStrategy == ApplyStrategy

SpecStrategy == InitStrategy /\ [][NextStrategy]_vars

(***************************************************************************)
(* match_rule called on its own, as the unit test calls it, on one issue   *)
(* and one rule.  Each pattern of the pool is found in one field of the    *)
(* issues: "spelling" in the title, "commit" in a body, "bug" in a label.  *)
(***************************************************************************)
PatternPool == {"spelling", "commit", "bug"}

\* The lists of distinct patterns no longer than n.
PatternLists(n) ==
    UNION {Orders(P) : P \in {Q \in SUBSET PatternPool : Cardinality(Q) <= n}}

InitMatch ==
    \E text \in IssueTexts, labels \in {<<>>, <<"bug">>},
       title, txt, label, any \in PatternLists(MaxPatterns) :
        /\ issue = create_issue(Payload(text, labels, <<>>))
        /\ old = issue
        /\ remote = [labels |-> labels, assignees |-> {}]
        /\ rules = <<[key |-> "Anna", value |-> Rule(title, txt, label, any)]>>
        /\ strategy = "append"
        /\ pc = "created"
        /\ users = <<>>
        /\ echoes = <<>>
        /\ requests = <<>>
        /\ prev = <<>>
        /\ NoWeb /\ NoCli

\* match_rule(issue, rule): returns True, returns False or raises TypeError.
MatchRule ==
    /\ pc = "created"
    /\ pc' = IF match_rule_raises(issue, rules[1].value) THEN "TypeError"
             ELSE IF match_rule(issue, rules[1].value) THEN "True"
             ELSE "False"
    /\ UNCHANGED <<issue, rules, strategy, remote, old, users, echoes,
                   requests, prev, webvars, clivars>>

NextMatch == MatchRule

SpecMatch == InitMatch /\ [][NextMatch]_vars

(***************************************************************************)
(* The web application (src/ghia/web.py and validate_signature): one       *)
(* request is received and answered.  An exception that leaves index is    *)
(* answered by Flask with the status 500.                                  *)
(***************************************************************************)
\* str.find for a text of one character: the first position, 0 when absent.
find(s, sep) ==
    LET hits == {k \in 1..Len(s) : SubSeq(s, k, k) = sep} IN
    IF hits = {} THEN 0 ELSE CHOOSE k \in hits : \A j \in hits : k <= j

\* str.split(sep) for a separator of one character.
RECURSIVE split(_, _)
split(s, sep) ==
    LET k == find(s, sep) IN
    IF k = 0 THEN <<s>>
    ELSE <<SubSeq(s, 1, k - 1)>> \o split(SubSeq(s, k + 1, Len(s)), sep)

\* The digest names hmac.new accepts in the model; any other name is the
\* ValueError "unsupported hash type".
SupportedDigests == {"sha1", "sha256"}

\* hmac.new(secret, msg=data, digestmod=digest_mode).hexdigest(): a text that
\* is the same for the same key, message and digest only.
hexdigest(secret, data, digest_mode) ==
    digest_mode \o "(" \o secret \o "," \o data \o ")"

\* validate_signature raises ValueError: the header does not split into two
\* parts at "=" (line 145), or names an unsupported digest (lines 146-147).
validate_signature_raises(header_signature) ==
    LET parts == split(header_signature, "=") IN
    Len(parts) # 2 \/ parts[1] \notin SupportedDigests

\* validate_signature, when it returns (lines 145-148).
validate_signature(secret, data, header_signature) ==
    LET parts == split(header_signature, "=")
        digest_mode == parts[1]
        signature == parts[2]
    IN signature = hexdigest(secret, data, digest_mode)

\* "Perform validation if present" (web.py:180-186): a missing header and a
\* missing config["auth"]["secret"] are the KeyError that is passed.
signature_step(req, au) ==
    IF "X-Hub-Signature" \notin DOMAIN req.headers THEN "pass"
    ELSE IF "secret" \notin DOMAIN au THEN "pass"
    ELSE IF validate_signature_raises(req.headers["X-Hub-Signature"])
         THEN "ValueError"
    ELSE IF validate_signature(au["secret"], req.data,
                               req.headers["X-Hub-Signature"])
         THEN "pass"
    ELSE "abort(401)"

\* What a request leaves behind: the Issue object it built, the matched
\* logins and messages, the PATCH requests it sent and what GitHub holds.
Untouched(held) ==
    [issue |-> <<>>, old |-> <<>>, users |-> <<>>, echoes |-> <<>>,
     requests |-> <<>>, remote |-> held]

\* A call that returned a text, and a call that raised.
Returned(result, left) == [raised |-> "", result |-> result, left |-> left]
Raised(exception, left) == [raised |-> exception, result |-> "", left |-> left]

process_post_ping(request_payload) == "Ping successful"

HandledActions ==
    {"opened", "edited", "transferred", "reopened",
     "assigned", "unassigned", "labeled", "unlabeled"}

\* The keys create_issue reads (github.py:186-192).
IssueFields ==
    {"number", "url", "html_url", "title", "body", "labels", "assignees"}

\* One exchange with GitHub: the request and the status of the answer.
\* raise_for_status raises requests.HTTPError on a status of 400 and above.
Exchange(method, url, json, status) ==
    [method |-> method, url |-> url, json |-> json, status |-> status]

raise_for_status(exchange) == exchange.status >= 400

\* The statuses GitHub answers a PATCH with: accepted, or refused.
PatchStatuses == {200, 400}

confirmation(iss) ==
    "Issue " \o ToString(iss.number) \o " (" \o iss.title
        \o ") was successfully updated."

\* A faulty handler: the answer to the PATCH is not looked at.
update_and_confirm_unchecked(created, r, us, held) ==
    LET left == [issue |-> r.issue, old |-> created, users |-> us,
                 echoes |-> r.echoes, requests |-> <<>>, remote |-> held]
    IN IF sends_patch(r.issue)
       THEN {LET body == serialize(r.issue, order)
                 patch == Exchange("PATCH", r.issue.url, body, status)
             IN Returned(confirmation(r.issue),
                         [left EXCEPT !.requests = <<patch>>,
                                      !.remote = IF raise_for_status(patch)
                                                 THEN held
                                                 ELSE patched(held, body)]) :
             order \in Orders(r.issue.assignees), status \in PatchStatuses}
       ELSE {Returned(confirmation(r.issue), left)}

\* update_github(issue, session) after process_issue gave r, and the
\* confirmation (web.py:146-149; github.py:255-257).
update_and_confirm(created, r, us, held) ==
    LET left == [issue |-> r.issue, old |-> created, users |-> us,
                 echoes |-> r.echoes, requests |-> <<>>, remote |-> held]
    IN IF sends_patch(r.issue)
       THEN {LET body == serialize(r.issue, order)
                 patch == Exchange("PATCH", r.issue.url, body, status)
             IN IF raise_for_status(patch)
                THEN Raised("HTTPError", [left EXCEPT !.requests = <<patch>>])
                ELSE Returned(confirmation(r.issue),
                              [left EXCEPT !.requests = <<patch>>,
                                           !.remote = patched(held, body)]) :
             order \in Orders(r.issue.assignees), status \in PatchStatuses}
       ELSE {Returned(confirmation(r.issue), left)}

\* process_post_issues: every way the call can end.
process_post_issues(request_payload, rs, held) ==
    IF "action" \notin DOMAIN request_payload
    THEN {Raised("KeyError", Untouched(held))}
    ELSE IF request_payload.action \notin HandledActions
    THEN {Raised("abort(501)", Untouched(held))}
    ELSE IF "issue" \notin DOMAIN request_payload
    THEN {Raised("KeyError", Untouched(held))}
    ELSE IF ~(IssueFields \subseteq DOMAIN request_payload.issue)
    THEN {Raised("KeyError", Untouched(held))}
    ELSE LET created == create_issue(request_payload.issue) IN
         IF find_users_raises(created, rs)
         THEN {Raised("TypeError",
                      [Untouched(held) EXCEPT !.issue = created, !.old = created])}
         ELSE UNION {update_and_confirm(created, r, find_users(created, rs), held) :
                        r \in process_issue(created, "append", rs)}

Answer(status, body, left) == [status |-> status, body |-> body, left |-> left]

\* The response to what the dispatch of lines 192-201 ended with.
respond(o) ==
    IF o.raised = "" THEN Answer(200, o.result, o.left)
    ELSE IF o.raised = "KeyError" THEN Answer(400, "Bad Request", o.left)
    ELSE IF o.raised = "abort(501)" THEN Answer(501, "Not Implemented", o.left)
    ELSE Answer(500, "Internal Server Error", o.left)

\* index: every response the request can get.
index(req, au, rs, held) ==
    IF req.method = "GET"
    THEN {Answer(200, "index.html", Untouched(held))}
    ELSE LET step == signature_step(req, au) IN
         IF step = "abort(401)"
         THEN {Answer(401, "Unauthorized", Untouched(held))}
         ELSE IF step = "ValueError"
         THEN {Answer(500, "Internal Server Error", Untouched(held))}
         ELSE IF "X-GitHub-Event" \notin DOMAIN req.headers
         THEN {Answer(400, "Bad Request", Untouched(held))}
         ELSE IF req.headers["X-GitHub-Event"] = "ping"
         THEN {Answer(200, process_post_ping(req.json), Untouched(held))}
         ELSE IF req.headers["X-GitHub-Event"] = "issues"
         THEN {respond(o) : o \in process_post_issues(req.json, rs, held)}
         ELSE {Answer(501, "Not Implemented", Untouched(held))}

\* The requests of the model.  The secret GitHub was given is Secret; the
\* application is configured with it or with no secret at all.
Secret == "s3cret"
AuthConfigs == {[token |-> "t0ken"], [token |-> "t0ken", secret |-> Secret]}

WebRuleSets ==
    {<<[key |-> "fallback", value |-> "Need assignment"],
       [key |-> "Assignee1", value |-> RuleOf("Assignee1")]>>,
     <<[key |-> "Anna", value |-> RuleOf("Anna")]>>}

Events == {"ping", "issues", "pong"}
OtherActions == {"closed", "deleted"}

\* The issue of a payload with the key "body" left out.
WithoutBody(p) == [k \in DOMAIN p \ {"body"} |-> p[k]]

\* The JSON objects a POST can carry about the issue with payload p.
Payloads(p) ==
    {[zen |-> "Keep it logically awesome."]}
    \cup {[action |-> a, issue |-> p] : a \in HandledActions \cup OtherActions}
    \cup {[action |-> "opened"], [action |-> "closed"], [issue |-> p],
          [action |-> "opened", issue |-> WithoutBody(p)]}

\* The values of X-Hub-Signature: the signature GitHub computes, one under
\* another secret, one of another body, one under another digest, and
\* values validate_signature cannot take apart.
Signatures(data) ==
    {"sha1=" \o hexdigest(Secret, data, "sha1"),
     "sha1=" \o hexdigest("guess", data, "sha1"),
     "sha1=" \o hexdigest(Secret, "", "sha1"),
     "sha256=" \o hexdigest(Secret, data, "sha256"),
     "sha1",
     "sha1=" \o hexdigest(Secret, data, "sha1") \o "=",
     "md7=00"}

\* The headers: each of the two is there (a list of one value) or not.
Headers(signature, event) ==
    LET names == (IF signature # <<>> THEN {"X-Hub-Signature"} ELSE {})
                 \cup (IF event # <<>> THEN {"X-GitHub-Event"} ELSE {})
    IN [n \in names |-> IF n = "X-Hub-Signature" THEN signature[1] ELSE event[1]]

\* flask.request: request.data is the raw body, request.json the object
\* parsed from it.
Request(method, headers, json) ==
    [method |-> method, headers |-> headers,
     data |-> IF json = <<>> THEN "" ELSE ToString(json), json |-> json]

Optional(S) == {<<>>} \cup {<<x>> : x \in S}

Requests(p) ==
    {Request("GET", Headers(<<>>, <<>>), <<>>)}
    \cup UNION {{Request("POST", Headers(signature, event), json) :
                    signature \in Optional(Signatures(ToString(json))),
                    event \in Optional(Events)} :
                json \in Payloads(p)}

InitWeb ==
    \E text \in IssueTexts, assignees \in {{}, {"Codertocat"}} :
        /\ remote = [labels |-> <<>>, assignees |-> assignees]
        /\ request \in Requests(Payload(text, <<>>, Listing(assignees)))
        /\ auth \in AuthConfigs
        /\ rules \in WebRuleSets
        /\ strategy = "append"
        /\ response = <<>>
        /\ pc = "received"
        /\ issue = <<>>
        /\ old = <<>>
        /\ users = <<>>
        /\ echoes = <<>>
        /\ requests = <<>>
        /\ prev = <<>>
        /\ NoCli

\* index(): the request is answered.
Index ==
    /\ pc = "received"
    /\ \E a \in index(request, auth, rules, remote) :
        /\ response' = [status |-> a.status, body |-> a.body]
        /\ issue' = a.left.issue
        /\ old' = a.left.old
        /\ users' = a.left.users
        /\ echoes' = a.left.echoes
        /\ requests' = a.left.requests
        /\ remote' = a.left.remote
    /\ pc' = "answered"
    /\ UNCHANGED <<rules, strategy, prev, request, auth, clivars>>

NextWeb == Index

SpecWeb == InitWeb /\ [][NextWeb]_vars

(***************************************************************************)
(* The command line (src/ghia/cli.py).  GitHub holds the repositories of   *)
(* the table Repositories: the pages of a repository are its list, in the  *)
(* order of the "next" links; a page is the status of the request for it   *)
(* and its issues; an issue is its text, the assignees it has at the start *)
(* and the status GitHub answers a PATCH of it with.  In a command-line    *)
(* run remote maps the URL of every issue to what GitHub holds of it.      *)
(***************************************************************************)
GITHUB_URL == "https://api.github.com/repos/"

issues_url(reposlug) == GITHUB_URL \o reposlug \o "/issues"

\* The URL of page n of the issues, as GitHub writes it in its links.
page_url(reposlug, n) == issues_url(reposlug) \o "?page=" \o ToString(n)

IssueText(number) == CHOOSE text \in IssueTexts : text.number = number

Page(status, issues) == [status |-> status, issues |-> issues]

\* Issue number of a repository, with the title and body of IssueText(like).
Item(reposlug, number, like, assignees, patch_status) ==
    [text |-> [number |-> number,
               url |-> issues_url(reposlug) \o "/" \o ToString(number),
               html_url |-> "https://github.com/" \o reposlug
                                \o "/issues/" \o ToString(number),
               title |-> IssueText(like).title,
               body |-> IssueText(like).body],
     assignees |-> assignees,
     patch_status |-> patch_status]

\* The number of pages of the repository with ten pages and more; the
\* repository whose last page cannot be listed has one more.
ManyPages == 10

RepoPool ==
    {"ghia/paged", "ghia/private", "ghia/nobody", "ghia/broken", "ghia/many"}

Repositories ==
    [slug \in RepoPool |->
        CASE slug = "ghia/paged" ->
                <<Page(200, <<Item(slug, 1, 1, {}, 400),
                              Item(slug, 2, 1, {}, 200)>>),
                  Page(200, <<Item(slug, 3, 2, {"Codertocat"}, 200)>>)>>
          [] slug = "ghia/private" ->
                <<Page(404, <<>>)>>
          [] slug = "ghia/nobody" ->
                <<Page(200, <<Item(slug, 1, 3, {}, 200)>>)>>
          [] slug = "ghia/broken" ->
                [n \in 1..ManyPages + 1 |->
                    IF n <= ManyPages THEN Page(200, <<Item(slug, n, 2, {}, 200)>>)
                    ELSE Page(500, <<>>)]
          [] slug = "ghia/many" ->
                [n \in 1..ManyPages |->
                    Page(200, <<Item(slug, n, 2, {}, 200)>>)]]

Items ==
    UNION {UNION {Range(Repositories[slug][n].issues) :
                    n \in DOMAIN Repositories[slug]} : slug \in RepoPool}

\* What GitHub holds of every issue before the command runs.
held_at_start ==
    [url \in {item.text.url : item \in Items} |->
        LET item == CHOOSE x \in Items : x.text.url = url
        IN [labels |-> <<>>, assignees |-> item.assignees]]

patch_status(url) == (CHOOSE item \in Items : item.text.url = url).patch_status

\* The number of the page a URL names: the issues URL is the first page.
page_number(reposlug, url) ==
    IF url = issues_url(reposlug) THEN 1
    ELSE CHOOSE n \in DOMAIN Repositories[reposlug] : url = page_url(reposlug, n)

\* The links GitHub sends with page n: "next" and "last" on every page but
\* the last one, so none of them for a list of one page.
links(reposlug, n) ==
    LET last == Len(Repositories[reposlug])
    IN [rel \in (IF n < last THEN {"next", "last"} ELSE {}) |->
            [url |-> page_url(reposlug, IF rel = "next" THEN n + 1 ELSE last)]]

\* GitHub's answer to a GET (or HEAD) of a page of issues.
get(reposlug, url, held) ==
    LET n == page_number(reposlug, url)
        page == Repositories[reposlug][n]
    IN [status |-> page.status,
        json |-> [k \in DOMAIN page.issues |->
                    LET item == page.issues[k]
                    IN Payload(item.text, held[item.text.url].labels,
                               Listing(held[item.text.url].assignees))],
        links |-> links(reposlug, n)]

CliRules == <<[key |-> "Assignee1", value |-> RuleOf("Assignee1")]>>

\* A line of the standard output, with the task that printed it: the
\* position of its reposlug on the command line and the URL of its issue.
Line(i, url, text) == [task |-> <<i, url>>, text |-> text]

Lines(i, url, texts) == [k \in DOMAIN texts |-> Line(i, url, texts[k])]

\* The output so far, the exchanges with GitHub so far, what GitHub holds,
\* and the exception that is propagating ("" when there is none).
Progress(out, err, reqs, held) ==
    [raised |-> "", stdout |-> out, stderr |-> err, requests |-> reqs,
     remote |-> held]

\* click.echo(f"-> {echo_name} ({issue.html_url})") (cli.py:66-67, 214-216).
echo_header(i, reposlug, iss, acc) ==
    [acc EXCEPT !.stdout = Append(@, Line(i, iss.url,
        "-> " \o style(reposlug \o "#" \o ToString(iss.number))
              \o " (" \o iss.html_url \o ")"))]

\* A faulty test of --dry-run: the option is not looked at.
must_update_always(dry_run, iss) == sends_patch(iss)

\* "if not dry_run and (issue.update_assignees or issue.update_labels)".
must_update(dry_run, iss) == ~dry_run /\ sends_patch(iss)

\* A faulty handling of the answer: the requests.HTTPError is not caught.
patch_answered_raises(i, reposlug, r, patch, acc) ==
    LET sent == [acc EXCEPT !.requests = Append(@, patch)]
    IN IF raise_for_status(patch)
       THEN [sent EXCEPT !.raised = "HTTPError"]
       ELSE [sent EXCEPT !.remote[r.issue.url] = patched(@, patch.json),
                         !.stdout = @ \o Lines(i, r.issue.url, r.echoes)]

\* What follows the answer to the PATCH of update_github: a refusal is the
\* requests.HTTPError that becomes a GhiaError, caught and printed; else the
\* messages are printed (cli.py:74-83, 223-232).
patch_answered(i, reposlug, r, patch, acc) ==
    LET sent == [acc EXCEPT !.requests = Append(@, patch)]
    IN IF raise_for_status(patch)
       THEN [sent EXCEPT !.stderr = Append(@,
                "   " \o style("ERROR") \o ": Could not update issue "
                \o reposlug \o "#" \o ToString(r.issue.number))]
       ELSE [sent EXCEPT !.remote[r.issue.url] = patched(@, patch.json),
                         !.stdout = @ \o Lines(i, r.issue.url, r.echoes)]

\* One issue of a page (cli.py:210-232).  Any exception other than
\* requests.HTTPError propagates.
process_item(i, reposlug, payload, strat, rs, dry_run, acc) ==
    LET created == create_issue(payload)
        acc1 == echo_header(i, reposlug, created, acc)
    IN IF find_users_raises(created, rs)
       THEN {[acc1 EXCEPT !.raised = "TypeError"]}
       ELSE UNION {
            IF must_update(dry_run, r.issue)
            THEN {patch_answered(i, reposlug, r,
                        Exchange("PATCH", r.issue.url, serialize(r.issue, order),
                                 patch_status(r.issue.url)), acc1) :
                  order \in Orders(r.issue.assignees)}
            ELSE {[acc1 EXCEPT !.stdout = @ \o Lines(i, r.issue.url, r.echoes)]} :
            r \in process_issue(created, strat, rs)}

\* The issues of one page, in their order, until an exception propagates.
RECURSIVE process_items(_, _, _, _, _, _, _)
process_items(i, reposlug, json, strat, rs, dry_run, acc) ==
    IF json = <<>> \/ acc.raised # "" THEN {acc}
    ELSE UNION {process_items(i, reposlug, Tail(json), strat, rs, dry_run, a) :
                    a \in process_item(i, reposlug, Head(json), strat, rs,
                                       dry_run, acc)}

\* A faulty loop: the "next" link is not followed.
process_pages_first_only(i, reposlug, url, strat, rs, dry_run, acc) ==
    LET answer == get(reposlug, url, acc.remote)
        acc1 == [acc EXCEPT !.requests = Append(@,
                    Exchange("GET", url, <<>>, answer.status))]
    IN IF raise_for_status(answer)
       THEN {[acc1 EXCEPT !.raised = "GhiaError"]}
       ELSE process_items(i, reposlug, answer.json, strat, rs, dry_run, acc1)

\* The loop "while issues_url" of process_repository (cli.py:203-240): the
\* page is asked for, a refusal raises GhiaError, the issues are processed,
\* and the loop goes on at the "next" link if there is one.
RECURSIVE process_pages(_, _, _, _, _, _, _)
process_pages(i, reposlug, url, strat, rs, dry_run, acc) ==
    LET answer == get(reposlug, url, acc.remote)
        acc1 == [acc EXCEPT !.requests = Append(@,
                    Exchange("GET", url, <<>>, answer.status))]
    IN IF raise_for_status(answer)
       THEN {[acc1 EXCEPT !.raised = "GhiaError"]}
       ELSE UNION {
            IF a.raised # "" \/ "next" \notin DOMAIN answer.links THEN {a}
            ELSE process_pages(i, reposlug, answer.links["next"].url,
                               strat, rs, dry_run, a) :
            a \in process_items(i, reposlug, answer.json, strat, rs,
                                dry_run, acc1)}

\* process_repository, called for the reposlug at position i.
process_repository(i, reposlug, strat, rs, dry_run, acc) ==
    process_pages(i, reposlug, issues_url(reposlug), strat, rs, dry_run, acc)

\* int(c) of a one-character text of a digit.
int(c) == IndexIn(Digits, c) - 1

\* issue_page_urls of async_process_repository (cli.py:139-140): the URL of
\* the "last" link without its last character, followed by each number from
\* 1 to that last character.
issue_page_urls(last_url) ==
    {SubSeq(last_url, 1, Len(last_url) - 1) \o ToString(x) :
        x \in 1..int(SubSeq(last_url, Len(last_url), Len(last_url)))}

\* The tasks of the event loop that have not ended.  A task is waiting for
\* the answer to its HEAD request (async_process_repository), waiting for
\* the answer to its GET request (async_process_issue_page), the issue
\* tasks a page task gathered (async_process_issue), or an exception on its
\* way to asyncio.run.  The issue tasks of one gather are made ready
\* together and the loop runs what is ready in that order, so once the
\* first of them has begun the others follow before any other task.
Task(kind, i, url, issues, begun) ==
    [kind |-> kind, i |-> i, url |-> url, issues |-> issues, begun |-> begun]

\* The reposlugs whose task has ended: none of its tasks is left and none
\* of its PATCH requests is in flight.
ended(reposlugs, ts, fl) ==
    {i \in DOMAIN reposlugs :
        (\A t \in ts : t.i # i) /\ (\A f \in fl : f.i # i)}

\* A faulty event loop: it goes on with other tasks while update_github
\* waits for the answer.
loop_free_while_waiting(fl) == TRUE

\* update_github calls requests (session.patch, github.py:256), which does
\* not give the event loop back: while a PATCH is in flight no task runs.
loop_free(fl) == fl = {}

\* The lists of reposlugs of the command line: at least one (the argument
\* is required), at most MaxRepos, and the same one may be given twice.
RepoLists ==
    UNION {Orders(R) : R \in {Q \in SUBSET RepoPool :
                                Cardinality(Q) >= 1 /\ Cardinality(Q) <= MaxRepos}}
    \cup {<<reposlug, reposlug>> : reposlug \in RepoPool}

InitCli ==
    /\ argv \in [reposlugs : RepoLists, asynchronous : BOOLEAN, dry_run : BOOLEAN]
    /\ strategy \in Strategies
    /\ rules = CliRules
    /\ done = {}
    /\ tasks = IF argv.asynchronous
               THEN {Task("async_process_repository", i,
                          issues_url(argv.reposlugs[i]), <<>>, FALSE) :
                        i \in DOMAIN argv.reposlugs}
               ELSE {}
    /\ inflight = {}
    /\ stdout = <<>>
    /\ stderr = <<>>
    /\ requests = <<>>
    /\ exit_code = <<>>
    /\ pc = "cli"
    /\ issue = <<>>
    /\ old = <<>>
    /\ remote = held_at_start
    /\ users = <<>>
    /\ echoes = <<>>
    /\ prev = <<>>
    /\ NoWeb

\* What the end of process_repository does to the command: a GhiaError is
\* printed and the command exits with 10 (cli.py:272-275); any other
\* exception leaves cli, and Python prints it and exits with 1.
Finish(i, a) ==
    /\ done' = done \cup {i}
    /\ stdout' = a.stdout
    /\ requests' = a.requests
    /\ remote' = a.remote
    /\ IF a.raised = "" THEN stderr' = a.stderr /\ exit_code' = exit_code
       ELSE IF a.raised = "GhiaError"
       THEN /\ stderr' = Append(a.stderr,
                    style("ERROR") \o ": Could not list issues for repository "
                    \o argv.reposlugs[i])
            /\ exit_code' = <<10>>
       ELSE /\ stderr' = Append(a.stderr, "Traceback: " \o a.raised)
            /\ exit_code' = <<1>>
    /\ UNCHANGED <<issue, rules, strategy, pc, old, users, echoes, prev,
                   argv, tasks, inflight, webvars>>

\* One pass of the loop "for reposlug in reposlugs" (cli.py:269-271).
ProcessRepository ==
    /\ pc = "cli" /\ exit_code = <<>>
    /\ ~argv.asynchronous
    /\ LET i == Cardinality(done) + 1 IN
        /\ i \in DOMAIN argv.reposlugs
        /\ \E a \in process_repository(i, argv.reposlugs[i], strategy, rules,
                        argv.dry_run, Progress(stdout, stderr, requests, remote)) :
                Finish(i, a)

\* A step of the event loop: the tasks and the output become what the step
\* left, and the repository tasks without a task left have ended.
Step(ts, fl, a) ==
    /\ tasks' = ts
    /\ inflight' = fl
    /\ done' = ended(argv.reposlugs, ts, fl)
    /\ stdout' = a.stdout
    /\ stderr' = a.stderr
    /\ requests' = a.requests
    /\ remote' = a.remote
    /\ UNCHANGED <<issue, rules, strategy, pc, old, users, echoes, prev,
                   argv, exit_code, webvars>>

Running == pc = "cli" /\ exit_code = <<>> /\ argv.asynchronous /\ loop_free(inflight)

\* No gather of issue tasks is half-way.
Between == \A s \in tasks : ~s.begun

\* async_process_repository is answered its HEAD request (cli.py:136-148):
\* a refusal is the ClientResponseError that is caught and printed; no
\* "last" link is a KeyError that nothing catches; else one task per URL of
\* issue_page_urls is gathered.
AsyncHead ==
    /\ Running /\ Between
    /\ \E t \in tasks :
        /\ t.kind = "async_process_repository"
        /\ LET reposlug == argv.reposlugs[t.i]
               answer == get(reposlug, t.url, remote)
               acc == Progress(stdout, stderr,
                        Append(requests, Exchange("HEAD", t.url, <<>>, answer.status)),
                        remote)
           IN IF raise_for_status(answer)
              THEN Step(tasks \ {t}, inflight,
                        [acc EXCEPT !.stderr = Append(@, style("ERROR")
                            \o ": Could not list issues for repository " \o reposlug)])
              ELSE IF "last" \notin DOMAIN answer.links
              THEN Step((tasks \ {t}) \cup {Task("exception", t.i, "KeyError", <<>>, FALSE)},
                        inflight, acc)
              ELSE Step((tasks \ {t})
                            \cup {Task("async_process_issue_page", t.i, url, <<>>, FALSE) :
                                    url \in issue_page_urls(answer.links["last"].url)},
                        inflight, acc)

\* async_process_issue_page is answered its GET request (cli.py:104-110):
\* the Issue objects are created and one task per issue is gathered.  A
\* refusal is the ClientResponseError that async_process_repository catches
\* and prints: its session is closed, so the page tasks still waiting get no
\* answer, and the issue tasks already gathered run or are cancelled with
\* the loop.
AsyncFetchPage ==
    /\ Running /\ Between
    /\ \E t \in tasks :
        /\ t.kind = "async_process_issue_page"
        /\ LET reposlug == argv.reposlugs[t.i]
               answer == get(reposlug, t.url, remote)
               acc == Progress(stdout, stderr,
                        Append(requests, Exchange("GET", t.url, <<>>, answer.status)),
                        remote)
               issues == [k \in DOMAIN answer.json |-> create_issue(answer.json[k])]
           IN IF raise_for_status(answer)
              THEN \E kept \in BOOLEAN :
                    Step({s \in tasks : s.i # t.i
                                        \/ (kept /\ s.kind = "async_process_issue")},
                         inflight,
                         [acc EXCEPT !.stderr = Append(@, style("ERROR")
                            \o ": Could not list issues for repository " \o reposlug)])
              ELSE Step((tasks \ {t})
                            \cup (IF issues = <<>> THEN {}
                                  ELSE {Task("async_process_issue", t.i, t.url, issues, FALSE)}),
                        inflight, acc)

\* The next issue task of a page starts (async_process_issue, cli.py:65-83):
\* the header is printed and process_issue called; without an update the
\* messages are printed and the task ends, else the PATCH is sent.
AsyncProcessIssue ==
    /\ Running
    /\ \E t \in tasks :
        /\ t.kind = "async_process_issue"
        /\ \A s \in tasks : s.begun => s = t
        /\ LET reposlug == argv.reposlugs[t.i]
               created == Head(t.issues)
               rest == (tasks \ {t})
                        \cup (IF Tail(t.issues) = <<>> THEN {}
                              ELSE {[t EXCEPT !.issues = Tail(@), !.begun = TRUE]})
               acc == echo_header(t.i, reposlug, created,
                                  Progress(stdout, stderr, requests, remote))
           IN IF find_users_raises(created, rules)
              THEN Step(rest \cup {Task("exception", t.i, "TypeError", <<>>, FALSE)},
                        inflight, acc)
              ELSE \E r \in process_issue(created, strategy, rules) :
                    IF must_update(argv.dry_run, r.issue)
                    THEN \E order \in Orders(r.issue.assignees) :
                            Step(rest,
                                 inflight \cup {[i |-> t.i, issue |-> r.issue,
                                                 echoes |-> r.echoes,
                                                 json |-> serialize(r.issue, order)]},
                                 acc)
                    ELSE Step(rest, inflight,
                              [acc EXCEPT !.stdout = @ \o
                                    Lines(t.i, r.issue.url, r.echoes)])

\* GitHub answers a PATCH in flight, and the issue task that sent it ends.
PatchAnswered ==
    /\ pc = "cli" /\ exit_code = <<>> /\ argv.asynchronous
    /\ \E f \in inflight :
        Step(tasks, inflight \ {f},
             patch_answered(f.i, argv.reposlugs[f.i],
                            [issue |-> f.issue, echoes |-> f.echoes],
                            Exchange("PATCH", f.issue.url, f.json,
                                     patch_status(f.issue.url)),
                            Progress(stdout, stderr, requests, remote)))

\* An exception no coroutine caught reaches asyncio.run (cli.py:265-267) and
\* leaves cli: the tasks left are cancelled, Python prints the exception
\* and exits with 1.
AsyncRaise ==
    /\ Running /\ Between
    /\ \E t \in tasks :
        /\ t.kind = "exception"
        /\ tasks' = {}
        /\ stderr' = Append(stderr, "Traceback: " \o t.url)
        /\ exit_code' = <<1>>
        /\ UNCHANGED <<corevars, webvars, argv, done, inflight, stdout>>

\* cli returns: the command exits with 0.
Exit ==
    /\ pc = "cli" /\ exit_code = <<>>
    /\ done = DOMAIN argv.reposlugs
    /\ tasks = {} /\ inflight = {}
    /\ exit_code' = <<0>>
    /\ UNCHANGED <<corevars, webvars, argv, done, tasks, inflight, stdout, stderr>>

NextCli ==
    \/ ProcessRepository
    \/ AsyncHead \/ AsyncFetchPage \/ AsyncProcessIssue \/ PatchAnswered
    \/ AsyncRaise
    \/ Exit

SpecCli == InitCli /\ [][NextCli]_vars

(***************************************************************************)
(* Reading the returned messages.                                          *)
(***************************************************************************)
IsAssigneeEcho(e) ==
    /\ Len(e) >= 6
    /\ SubSeq(e, 1, 3) = "   "
    /\ SubSeq(e, 4, 4) \in {"+", "-", "="}
    /\ SubSeq(e, 5, 5) = " "

IsFallbackEcho(e) == Len(e) >= 11 /\ SubSeq(e, 1, 11) = "   FALLBACK"

EchoSymbol(e) == SubSeq(e, 4, 4)
EchoLogin(e) == SubSeq(e, 6, Len(e))

AlreadyHasEcho(label) == "   FALLBACK: already has label \"" \o label \o "\""
AddedEcho(label) == "   FALLBACK: added label \"" \o label \o "\""

Count(seq, x) == Cardinality({k \in DOMAIN seq : seq[k] = x})

\* The fallback step ran: no assignee was left and a fallback label is configured.
FallbackRan == issue.assignees = {} /\ HasKey(rules, "fallback")

(***************************************************************************)
(* C1.  Under "append", apply_strategy leaves the assignees equal to the   *)
(* old assignees united with the matched logins, and update_assignees is   *)
(* true afterwards iff some matched login was not an assignee before.      *)
(***************************************************************************)
C1_AppendIsUnion ==
    (pc = "applied" /\ strategy = "append") =>
        /\ issue.assignees = old.assignees \cup Range(users)
        /\ old.assignees \subseteq issue.assignees
        /\ issue.update_assignees <=> ~(Range(users) \subseteq old.assignees)

C1_Witness ==
    /\ pc = "applied" /\ strategy = "append"
    /\ old.assignees # {}
    /\ Range(users) \cap old.assignees # {}
    /\ ~(Range(users) \subseteq old.assignees)
    /\ issue.update_assignees

(***************************************************************************)
(* C2.  Under "set": an issue that had an assignee keeps its assignees and *)
(* update_assignees stays false, whatever was matched; an issue that had   *)
(* none gets exactly the matched logins, and update_assignees is true iff  *)
(* there is a matched login.                                               *)
(***************************************************************************)
C2_SetOnlyWhenUnassigned ==
    (pc = "applied" /\ strategy = "set") =>
        IF old.assignees # {}
        THEN issue.assignees = old.assignees /\ ~issue.update_assignees
        ELSE /\ issue.assignees = Range(users)
             /\ issue.update_assignees <=> users # <<>>

C2_Witness ==
    /\ pc = "applied" /\ strategy = "set"
    /\ old.assignees # {}
    /\ ~(Range(users) \subseteq old.assignees)
    /\ issue.assignees = old.assignees

(***************************************************************************)
(* C3.  Under "change" the assignees after apply_strategy are exactly the  *)
(* matched logins; an empty list of matched logins clears the assignees.   *)
(***************************************************************************)
C3_ChangeReplaces ==
    (pc = "applied" /\ strategy = "change") =>
        /\ issue.assignees = Range(users)
        /\ users = <<>> => issue.assignees = {}

C3_Witness ==
    /\ pc = "applied" /\ strategy = "change"
    /\ old.assignees # {}
    /\ users = <<>>
    /\ issue.assignees = {}

(***************************************************************************)
(* C4.  For every strategy, after process_issue update_assignees is true   *)
(* iff the assignees differ from those of the original snapshot.           *)
(***************************************************************************)
C4_FlagIffChanged ==
    pc = "processed" =>
        (issue.update_assignees <=> issue.assignees # old.assignees)

(***************************************************************************)
(* C5.  The list apply_strategy returns holds exactly one entry for each   *)
(* login of the old or the new assignees and none for any other login; the *)
(* symbol is "+" for a login only in the new set, "-" for a login only in  *)
(* the old set and "=" for a login in both.                                *)
(***************************************************************************)
C5_OneEntryPerLogin ==
    pc = "applied" =>
        LET all == old.assignees \cup issue.assignees IN
        /\ \A k \in DOMAIN echoes :
            /\ IsAssigneeEcho(echoes[k])
            /\ EchoLogin(echoes[k]) \in all
        /\ \A login \in all :
            /\ Cardinality({k \in DOMAIN echoes : EchoLogin(echoes[k]) = login}) = 1
            /\ \A k \in DOMAIN echoes : EchoLogin(echoes[k]) = login =>
                /\ EchoSymbol(echoes[k]) = "+" <=>
                        (login \in issue.assignees /\ login \notin old.assignees)
                /\ EchoSymbol(echoes[k]) = "-" <=>
                        (login \in old.assignees /\ login \notin issue.assignees)
                /\ EchoSymbol(echoes[k]) = "=" <=>
                        (login \in old.assignees /\ login \in issue.assignees)

C5_Witness ==
    /\ pc = "applied"
    /\ {EchoSymbol(echoes[k]) : k \in DOMAIN echoes} = {"+", "-", "="}

(***************************************************************************)
(* C6.  For all three strategies the assignee entries of the list are in   *)
(* ascending order of the case-folded login, and no login appears twice.   *)
(***************************************************************************)
C6_SortedByCasefold ==
    pc = "applied" =>
        /\ \A k \in 1..(Len(echoes) - 1) :
            ~str_lt(casefold(EchoLogin(echoes[k + 1])), casefold(EchoLogin(echoes[k])))
        /\ \A j, k \in DOMAIN echoes :
            j # k => EchoLogin(echoes[j]) # EchoLogin(echoes[k])

\* Three entries whose order by case-folded login is not their order by login.
C6_Witness ==
    /\ pc = "applied"
    /\ Len(echoes) >= 3
    /\ \E k \in 1..(Len(echoes) - 1) :
        str_lt(EchoLogin(echoes[k + 1]), EchoLogin(echoes[k]))

(***************************************************************************)
(* C7.  Scenario A: an issue with the assignee Codertocat whose body holds *)
(* "commit", one rule text:commit for Assignee1, strategy "append".        *)
(* As claimed, process_issue gives the matched logins [Assignee1], the     *)
(* entries "= Codertocat", "+ Assignee1" in this order, and                *)
(* update_assignees true.  As amended, the entries are in the order        *)
(* "+ Assignee1", "= Codertocat".                                          *)
(***************************************************************************)
ScenarioA ==
    /\ pc = "processed"
    /\ strategy = "append"
    /\ old.title = "Spelling error" /\ old.body = "...commit..."
    /\ old.labels = <<"bug">>
    /\ old.assignees = {"Codertocat"}
    /\ rules = <<[key |-> "Assignee1", value |-> Rule(<<>>, <<"commit">>, <<>>, <<>>)]>>

C7_ScenarioA_AsClaimed ==
    ScenarioA =>
        /\ users = <<"Assignee1">>
        /\ echoes = <<"   = Codertocat", "   + Assignee1">>
        /\ issue.update_assignees

C7_ScenarioA_Amended ==
    ScenarioA =>
        /\ users = <<"Assignee1">>
        /\ echoes = <<"   + Assignee1", "   = Codertocat">>
        /\ issue.update_assignees

C7_Witness == ScenarioA /\ Len(echoes) = 2 /\ prev = <<>>

(***************************************************************************)
(* C8.  The list apply_strategy returns is a function of the strategy, the *)
(* old assignees and the matched logins: whatever order the sets are       *)
(* iterated in, the call returns the list it returned here.                *)
(***************************************************************************)
C8_EchoesDeterministic ==
    pc = "applied" =>
        \A r \in apply_strategy(strategy, old, users) : r.echoes = echoes

(***************************************************************************)
(* C9.  process_issue changes the labels or returns a FALLBACK entry iff,  *)
(* after the strategy, no assignee is left and the rules hold a fallback   *)
(* label; otherwise labels, update_labels and the list show no fallback    *)
(* effect.                                                                 *)
(***************************************************************************)
C9_FallbackIffUnassignedAndConfigured ==
    pc = "processed" =>
        LET touched == issue.labels # old.labels \/ issue.update_labels
            emitted == \E k \in DOMAIN echoes : IsFallbackEcho(echoes[k])
        IN /\ (touched \/ emitted) <=> FallbackRan
           /\ ~FallbackRan =>
                /\ issue.labels = old.labels
                /\ ~issue.update_labels
                /\ \A k \in DOMAIN echoes : IsAssigneeEcho(echoes[k])

\* Both sides: a fallback label is configured and an assignee is left, so
\* nothing happens.
C9_Witness ==
    /\ pc = "processed"
    /\ HasKey(rules, "fallback")
    /\ issue.assignees # {}
    /\ old.assignees = {}
    /\ issue.labels = old.labels

(***************************************************************************)
(* C10.  When the fallback step runs and the fallback label is an element  *)
(* of the labels (exact membership), the labels are not modified,          *)
(* update_labels stays false and exactly one "already has label" entry is  *)
(* returned; so an issue that got the fallback label in an earlier run     *)
(* does not get it a second time.                                          *)
(***************************************************************************)
C10_FallbackAlreadyPresent ==
    (pc = "processed" /\ FallbackRan
        /\ Lookup(rules, "fallback") \in Range(old.labels)) =>
        LET label == Lookup(rules, "fallback") IN
        /\ issue.labels = old.labels
        /\ ~issue.update_labels
        /\ Count(echoes, AlreadyHasEcho(label)) = 1
        /\ Count(echoes, AddedEcho(label)) = 0
        /\ Cardinality({k \in DOMAIN echoes : IsFallbackEcho(echoes[k])}) = 1
        /\ Count(issue.labels, label) = Count(old.labels, label)

\* The run before this one added the label; this run finds it.
C10_Witness ==
    /\ pc = "processed" /\ FallbackRan
    /\ prev # <<>> /\ prev[1].update_labels
    /\ Count(issue.labels, Lookup(rules, "fallback")) = 1
    /\ Count(echoes, AlreadyHasEcho(Lookup(rules, "fallback"))) = 1

(***************************************************************************)
(* C11.  When the fallback step runs and the fallback label is not among   *)
(* the labels, the label is appended once at the end of the labels, which  *)
(* are otherwise kept in their order, update_labels becomes true and an    *)
(* "added label" entry is returned.                                        *)
(***************************************************************************)
C11_FallbackAppended ==
    (pc = "processed" /\ FallbackRan
        /\ Lookup(rules, "fallback") \notin Range(old.labels)) =>
        LET label == Lookup(rules, "fallback") IN
        /\ issue.labels = Append(old.labels, label)
        /\ issue.update_labels
        /\ Count(echoes, AddedEcho(label)) = 1
        /\ Count(echoes, AlreadyHasEcho(label)) = 0
        /\ echoes[Len(echoes)] = AddedEcho(label)

\* The labels hold the fallback label in another letter case, and another
\* label before it: the label is appended behind both.
C11_Witness ==
    /\ pc = "processed" /\ FallbackRan
    /\ Len(old.labels) = 2
    /\ \E k \in DOMAIN old.labels :
        /\ old.labels[k] # Lookup(rules, "fallback")
        /\ casefold(old.labels[k]) = casefold(Lookup(rules, "fallback"))
    /\ Len(issue.labels) = 3
    /\ issue.update_labels

(***************************************************************************)
(* C12.  Convergence of "append".  As claimed: a second run with strategy  *)
(* "append" over the assignees and labels the first run produced leaves    *)
(* the assignees unchanged and update_assignees false.  As amended: it     *)
(* does so when the first run did not add the fallback label.              *)
(***************************************************************************)
SecondRunAppend == pc = "processed" /\ strategy = "append" /\ prev # <<>>

C12_AppendConverges_AsClaimed ==
    SecondRunAppend =>
        issue.assignees = old.assignees /\ ~issue.update_assignees

C12_AppendConverges_Amended ==
    (SecondRunAppend /\ ~prev[1].update_labels) =>
        issue.assignees = old.assignees /\ ~issue.update_assignees

\* The first run added an assignee; the second run matches the same login.
C12_Witness ==
    /\ SecondRunAppend /\ ~prev[1].update_labels
    /\ prev[1].update_assignees
    /\ users # <<>>
    /\ ~issue.update_assignees

(***************************************************************************)
(* C13.  The dictionary Issue.serialize returns holds the key "labels" iff *)
(* update_labels is true and the key "assignees" iff update_assignees is   *)
(* true, and update_github sends no PATCH when both flags are false.       *)
(***************************************************************************)
PatchKeys(iss) ==
    (IF iss.update_labels THEN {"labels"} ELSE {})
    \cup (IF iss.update_assignees THEN {"assignees"} ELSE {})

C13_PatchKeysFollowFlags ==
    /\ pc = "processed" =>
        \A order \in Orders(issue.assignees) :
            DOMAIN serialize(issue, order) = PatchKeys(issue)
    /\ pc \in {"updated", "failed"} =>
        /\ requests = <<>> <=> PatchKeys(issue) = {}
        /\ Len(requests) <= 1
        /\ \A k \in DOMAIN requests :
            /\ DOMAIN requests[k] = PatchKeys(issue)
            /\ "labels" \in DOMAIN requests[k] => requests[k].labels = issue.labels
            /\ "assignees" \in DOMAIN requests[k] =>
                    Range(requests[k].assignees) = issue.assignees

\* A PATCH that carries the labels and not the assignees.
C13_Witness ==
    /\ pc = "updated"
    /\ Len(requests) = 1
    /\ DOMAIN requests[1] = {"labels"}

(***************************************************************************)
(* C15.  An issue whose body is None is processed as if its body were the  *)
(* empty string: process_issue with rules that hold "text" or "any"        *)
(* patterns returns without an error, with the matched logins the empty    *)
(* body gives.                                                             *)
(***************************************************************************)
C15_NullBodyAsEmpty ==
    (old.body = None /\ pc # "created") =>
        /\ pc # "TypeError"
        /\ pc = "processed" =>
                users = find_users([old EXCEPT !.body = ""], rules)

(***************************************************************************)
(* C16.  The matched logins of process_issue are exactly the keys of the   *)
(* rules other than "fallback" whose rule matches the issue, each once;    *)
(* "fallback" is never among them, and rule matching never makes it an     *)
(* assignee.                                                               *)
(***************************************************************************)
C16_MatchedLogins ==
    pc = "processed" =>
        /\ Range(users) =
              {rules[k].key : k \in {j \in DOMAIN rules :
                    /\ rules[j].key # "fallback"
                    /\ match_rule(old, rules[j].value)}}
        /\ \A i, j \in DOMAIN users : users[i] = users[j] => i = j
        /\ "fallback" \notin Range(users)
        /\ "fallback" \notin issue.assignees
        /\ \A k \in DOMAIN echoes :
              IsAssigneeEcho(echoes[k]) => EchoLogin(echoes[k]) # "fallback"

\* Rules with the key "fallback" and two logins, of which one matches.
C16_Witness ==
    /\ pc = "processed"
    /\ HasKey(rules, "fallback")
    /\ Len(rules) = 3
    /\ Len(users) = 1

(***************************************************************************)
(* C17.  A call of process_issue leaves the rules as they were, and on the *)
(* issue it leaves number, url, html_url, title and body as they were,     *)
(* for every strategy.                                                     *)
(***************************************************************************)
C17_Frame ==
    [][(pc = "created" /\ pc' # "created") =>
          /\ rules' = rules
          /\ issue'.number = issue.number
          /\ issue'.url = issue.url
          /\ issue'.html_url = issue.html_url
          /\ issue'.title = issue.title
          /\ issue'.body = issue.body]_vars

\* A call that changed the assignees and the labels, with rules that hold
\* the key "fallback".
C17_Witness ==
    /\ pc = "processed"
    /\ HasKey(rules, "fallback")
    /\ issue.assignees # old.assignees
    /\ issue.labels # old.labels
    /\ issue.title = old.title /\ issue.body = old.body

(***************************************************************************)
(* C14.  match_rule(issue, rule) is true iff some "title" pattern matches  *)
(* the title, or some "text" pattern matches the body, or some "label"     *)
(* pattern matches some label, or some "any" pattern matches the title,    *)
(* the body or some label; in particular a pattern never fires on a field  *)
(* of another scope and a rule with four empty lists never matches.        *)
(***************************************************************************)
\* The pattern is found in the field; nothing is found in a body that is
\* absent.
Found(regex, field) == field # None /\ search(regex, field)

Fires(iss, rule) ==
    \/ \E k \in DOMAIN rule.title : Found(rule.title[k], iss.title)
    \/ \E k \in DOMAIN rule.text : Found(rule.text[k], iss.body)
    \/ \E k \in DOMAIN rule.label : \E l \in DOMAIN iss.labels :
            Found(rule.label[k], iss.labels[l])
    \/ \E k \in DOMAIN rule.any :
            \/ Found(rule.any[k], iss.title)
            \/ Found(rule.any[k], iss.body)
            \/ \E l \in DOMAIN iss.labels : Found(rule.any[k], iss.labels[l])

C14_MatchIffSomePatternFires ==
    pc # "created" => (pc = "True" <=> Fires(issue, rules[1].value))

(***************************************************************************)
(* C18.  A POST that passes the signature step is answered by its event:   *)
(* "ping" gets 200 and the static acknowledgement; "issues" with a handled *)
(* action is processed with strategy "append" and gets 200 and the         *)
(* confirmation; any other event or action gets 501; a missing             *)
(* X-GitHub-Event header or a missing JSON field gets 400.                 *)
(***************************************************************************)
Event == request.headers["X-GitHub-Event"]

\* The JSON object lacks a field the handling of the event reads.
FieldMissing ==
    \/ "action" \notin DOMAIN request.json
    \/ /\ request.json.action \in HandledActions
       /\ \/ "issue" \notin DOMAIN request.json
          \/ ~(IssueFields \subseteq DOMAIN request.json.issue)

Confirmed ==
    /\ response.status = 200
    /\ issue # <<>>
    /\ response.body = "Issue " \o ToString(issue.number) \o " ("
                          \o issue.title \o ") was successfully updated."
    /\ old = create_issue(request.json.issue)
    /\ \E r \in process_issue(old, "append", rules) : r.issue = issue

C18_AnsweredByEvent ==
    (pc = "answered" /\ request.method = "POST"
        /\ signature_step(request, auth) = "pass") =>
        IF "X-GitHub-Event" \notin DOMAIN request.headers
        THEN response.status = 400
        ELSE IF Event = "ping"
        THEN response = [status |-> 200, body |-> "Ping successful"]
        ELSE IF Event # "issues" THEN response.status = 501
        ELSE IF FieldMissing THEN response.status = 400
        ELSE IF request.json.action \notin HandledActions
        THEN response.status = 501
        ELSE Confirmed

(***************************************************************************)
(* C19.  When a secret is configured and a POST carries an X-Hub-Signature *)
(* that is not the HMAC of the raw body under that secret, the answer is   *)
(* 401 and nothing is dispatched: no issue is processed and no PATCH is    *)
(* sent, whatever the event is.                                            *)
(***************************************************************************)
\* The header is the HMAC of the body under the configured secret, in the
\* form "<digest>=<hex>" with a digest the server supports.
SignatureIsHmac ==
    \E digest_mode \in SupportedDigests :
        request.headers["X-Hub-Signature"] =
            digest_mode \o "=" \o hexdigest(auth.secret, request.data, digest_mode)

NothingDispatched ==
    /\ issue = <<>> /\ old = <<>> /\ requests = <<>>
    /\ response.body \notin {"Ping successful"}
    /\ response.status # 200

C19_BadSignatureIs401 ==
    (pc = "answered" /\ request.method = "POST"
        /\ "secret" \in DOMAIN auth
        /\ "X-Hub-Signature" \in DOMAIN request.headers
        /\ ~SignatureIsHmac) =>
        response.status = 401 /\ NothingDispatched

(***************************************************************************)
(* C20.  The command exits with 10 whenever listing the issues of one of   *)
(* the given repositories fails, in the sequential and in the async mode,  *)
(* and with 0 otherwise, also when only updates of issues failed.          *)
(***************************************************************************)
ListingFails(reposlug) ==
    \E k \in DOMAIN Repositories[reposlug] : Repositories[reposlug][k].status # 200

C20_ExitCode ==
    exit_code # <<>> =>
        exit_code = <<IF \E i \in DOMAIN argv.reposlugs : ListingFails(argv.reposlugs[i])
                      THEN 10 ELSE 0>>


(***************************************************************************)
(* C21.  When several reposlugs are given and the issues of one of them    *)
(* cannot be listed, only the processing of that repository is aborted:    *)
(* the failure is printed and every reposlug after it on the command line  *)
(* is still processed.  (Runs that end with a traceback are left aside.)   *)
(***************************************************************************)
ListingError(reposlug) ==
    style("ERROR") \o ": Could not list issues for repository " \o reposlug

C21_LaterRepositoriesProcessed ==
    exit_code \in {<<0>>, <<10>>} =>
        \A i \in DOMAIN argv.reposlugs :
            ListingFails(argv.reposlugs[i]) =>
                /\ \E k \in DOMAIN stderr : stderr[k] = ListingError(argv.reposlugs[i])
                /\ \A j \in DOMAIN argv.reposlugs : j > i => j \in done

(***************************************************************************)
(* C22.  When the PATCH of an issue fails in a command-line run, an error  *)
(* naming the repository and the issue number is printed to stderr, the    *)
(* messages of that issue are not printed, and every issue after it on the *)
(* page and on the following pages is still processed: the failure never   *)
(* leaves process_repository.                                              *)
(***************************************************************************)
\* The reposlug and the number of the issue at a URL, and the issues that
\* come after it in the pages of its repository.
RepoOf(url) ==
    CHOOSE reposlug \in RepoPool :
        \E n \in DOMAIN Repositories[reposlug] :
            \E item \in Range(Repositories[reposlug][n].issues) : item.text.url = url

NumberOf(url) == (CHOOSE item \in Items : item.text.url = url).text.number

Positions(reposlug) ==
    {p \in (DOMAIN Repositories[reposlug]) \X (1..Cardinality(Items)) :
        p[2] \in DOMAIN Repositories[reposlug][p[1]].issues}

UrlAt(reposlug, p) == Repositories[reposlug][p[1]].issues[p[2]].text.url

After(url) ==
    LET reposlug == RepoOf(url)
        at == CHOOSE p \in Positions(reposlug) : UrlAt(reposlug, p) = url
    IN {UrlAt(reposlug, p) :
            p \in {q \in Positions(reposlug) :
                    q[1] > at[1] \/ (q[1] = at[1] /\ q[2] > at[2])}}

UpdateError(url) ==
    "   " \o style("ERROR") \o ": Could not update issue "
        \o RepoOf(url) \o "#" \o ToString(NumberOf(url))

IsHeader(text) == Len(text) >= 3 /\ SubSeq(text, 1, 3) = "-> "

FailedPatches ==
    {m \in DOMAIN requests :
        requests[m].method = "PATCH" /\ raise_for_status(requests[m])}

C22_FailedPatchIsSkipped ==
    argv # <<>> =>
    \A m \in FailedPatches :
        LET url == requests[m].url IN
        /\ Count(stderr, UpdateError(url))
                = Cardinality({x \in FailedPatches : requests[x].url = url})
        /\ \A k \in DOMAIN stdout :
                stdout[k].task[2] = url => IsHeader(stdout[k].text)
        /\ \A i \in done :
                argv.reposlugs[i] = RepoOf(url) =>
                    \A u \in After(url) : \E k \in DOMAIN stdout :
                        stdout[k].task = <<i, u>> /\ IsHeader(stdout[k].text)
        /\ \A k \in DOMAIN stderr : stderr[k] # "Traceback: HTTPError"

\* The PATCH of the first issue of a page failed, the repository has been
\* processed to its end, and the issue after it got its messages.
C22_Witness ==
    /\ exit_code = <<0>>
    /\ \E m \in FailedPatches : \E u \in After(requests[m].url) :
        \E k \in DOMAIN stdout : stdout[k].task[2] = u /\ ~IsHeader(stdout[k].text)

(***************************************************************************)
(* C23.  With --dry-run no PATCH request is sent for any issue, in the     *)
(* sequential and in the async mode, and the messages of every issue are   *)
(* still computed and printed, exactly as they are without --dry-run.      *)
(***************************************************************************)
\* The lines printed for one issue: those from the header at k up to the
\* next header.
Block(k) ==
    LET stop == {j \in k + 1..Len(stdout) : IsHeader(stdout[j].text)}
    IN SubSeq(stdout, k,
              IF stop = {} THEN Len(stdout)
              ELSE (CHOOSE j \in stop : \A x \in stop : j <= x) - 1)

\* The JSON object GitHub gives for the issue at a URL before the command.
PayloadAt(url) ==
    LET item == CHOOSE x \in Items : x.text.url = url
    IN Payload(item.text, <<>>, Listing(item.assignees))

Quiet == Progress(<<>>, <<>>, <<>>, held_at_start)

\* What the task of reposlug i prints for the issue at a URL when the
\* command runs without --dry-run.
PrintedWithoutDryRun(i, url) ==
    {a.stdout : a \in process_item(i, argv.reposlugs[i], PayloadAt(url),
                                   strategy, rules, FALSE, Quiet)}

\* The header of the issue and the messages process_issue returns for it
\* (the header alone when process_issue raises).
PrintedWhenAccepted(i, url) ==
    LET created == create_issue(PayloadAt(url))
        header == echo_header(i, argv.reposlugs[i], created, Quiet).stdout
    IN IF find_users_raises(created, rules) THEN {header}
       ELSE {header \o Lines(i, url, r.echoes) :
                r \in process_issue(created, strategy, rules)}

NoPatchSent ==
    /\ inflight = {}
    /\ \A m \in DOMAIN requests : requests[m].method # "PATCH"
    /\ remote = held_at_start

\* The claim as it is worded: every block is what the run without
\* --dry-run prints for the issue.
C23_DryRunPrintsTheSame ==
    (argv # <<>> /\ argv.dry_run) =>
        /\ NoPatchSent
        /\ \A k \in DOMAIN stdout :
            IsHeader(stdout[k].text) =>
                Block(k) \in PrintedWithoutDryRun(stdout[k].task[1], stdout[k].task[2])

\* Amended: every block is the header and the messages of process_issue,
\* which is what the run without --dry-run prints for an issue whose PATCH
\* GitHub accepts, or for which no PATCH is needed.
C23_DryRunPrintsTheMessages ==
    (argv # <<>> /\ argv.dry_run) =>
        /\ NoPatchSent
        /\ \A k \in DOMAIN stdout :
            IsHeader(stdout[k].text) =>
                LET i == stdout[k].task[1]
                    url == stdout[k].task[2]
                IN /\ Block(k) \in PrintedWhenAccepted(i, url)
                   /\ ~raise_for_status([status |-> patch_status(url)]) =>
                        Block(k) \in PrintedWithoutDryRun(i, url)

\* A dry run printed the messages of an issue whose PATCH GitHub refuses,
\* which would have sent one.
C23_Witness ==
    /\ argv # <<>> /\ argv.dry_run
    /\ \E k \in DOMAIN stdout :
        /\ ~IsHeader(stdout[k].text)
        /\ raise_for_status([status |-> patch_status(stdout[k].task[2])])

(***************************************************************************)
(* C24.  In the async mode the header and the messages of one issue are    *)
(* printed next to each other: no line of another issue task is ever       *)
(* printed between two lines of one issue task, whatever the order in      *)
(* which the tasks run.                                                    *)
(***************************************************************************)
C24_LinesOfAnIssueContiguous ==
    (argv # <<>> /\ argv.asynchronous) =>
        \A a \in DOMAIN stdout : \A c \in DOMAIN stdout :
            (a < c /\ stdout[a].task = stdout[c].task) =>
                \A b \in a..c : stdout[b].task = stdout[a].task

\* Two issue tasks have printed their messages, the later one after a
\* PATCH that it had to wait for.
C24_Witness ==
    /\ argv # <<>> /\ argv.asynchronous
    /\ \E a \in DOMAIN stdout : \E c \in DOMAIN stdout :
        /\ a < c
        /\ stdout[a].task # stdout[c].task
        /\ ~IsHeader(stdout[a].text) /\ ~IsHeader(stdout[c].text)
        /\ \E m \in DOMAIN requests :
            requests[m].method = "PATCH" /\ requests[m].url = stdout[c].task[2]

(***************************************************************************)
(* C25.  In the async mode two PATCH requests for the same issue (the same *)
(* repository and number) are never in flight at the same time, also when  *)
(* the same reposlug is given more than once.                              *)
(***************************************************************************)
C25_OnePatchPerIssueInFlight ==
    \A f \in inflight : \A g \in inflight :
        f.issue.url = g.issue.url => f = g

\* A PATCH of an issue is in flight while the task of the same issue for
\* the other mention of the reposlug has not begun.
C25_Witness ==
    \E f \in inflight : \E t \in tasks :
        /\ t.kind = "async_process_issue"
        /\ t.i # f.i
        /\ \E k \in DOMAIN t.issues : t.issues[k].url = f.issue.url

(***************************************************************************)
(* C26.  The sequential process_repository starts at the issues URL of the *)
(* repository, follows the "next" link of each answer until an answer has  *)
(* none, and processes every issue of every page it fetched exactly once,  *)
(* in the order of the pages; it comes to an end for every finite chain of *)
(* links, and raises GhiaError as soon as a page request fails, with the   *)
(* issues of the pages before it processed.                                *)
(***************************************************************************)
\* The number of page requests for a repository: up to the first page that
\* is refused, or to the last page.
PagesAsked(reposlug) ==
    LET pages == Repositories[reposlug]
        refused == {n \in DOMAIN pages : pages[n].status >= 400}
    IN IF refused = {} THEN Len(pages)
       ELSE CHOOSE n \in refused : \A x \in refused : n <= x

ExpectedGets(reposlug) ==
    [n \in 1..PagesAsked(reposlug) |->
        IF n = 1 THEN issues_url(reposlug) ELSE page_url(reposlug, n)]

\* The URLs of the issues of the first n pages, in their order.
RECURSIVE IssuesOfPages(_, _)
IssuesOfPages(reposlug, n) ==
    IF n = 0 THEN <<>>
    ELSE IssuesOfPages(reposlug, n - 1)
            \o [k \in DOMAIN Repositories[reposlug][n].issues |->
                    Repositories[reposlug][n].issues[k].text.url]

\* What the passes 1..n of the loop over the reposlugs ask for and process.
RECURSIVE GetsOfPasses(_)
GetsOfPasses(n) ==
    IF n = 0 THEN <<>>
    ELSE GetsOfPasses(n - 1) \o ExpectedGets(argv.reposlugs[n])

RECURSIVE TasksOfPasses(_)
TasksOfPasses(n) ==
    IF n = 0 THEN <<>>
    ELSE LET urls == IssuesOfPages(argv.reposlugs[n], PagesAsked(argv.reposlugs[n]))
         IN TasksOfPasses(n - 1) \o [k \in DOMAIN urls |-> <<n, urls[k]>>]

Gets ==
    LET asked == SelectSeq(requests, LAMBDA x : x.method = "GET")
    IN [k \in DOMAIN asked |-> asked[k].url]

HeaderTasks ==
    LET printed == SelectSeq(stdout, LAMBDA l : IsHeader(l.text))
    IN [k \in DOMAIN printed |-> printed[k].task]

C26_SequentialPagination ==
    (argv # <<>> /\ ~argv.asynchronous) =>
        LET n == Cardinality(done) IN
        /\ done = 1..n
        /\ Gets = GetsOfPasses(n)
        /\ HeaderTasks = TasksOfPasses(n)
        /\ exit_code = <<10>> <=> (n > 0 /\ ListingFails(argv.reposlugs[n]))
        /\ (exit_code = <<>> /\ n < Len(argv.reposlugs)) =>
                process_repository(n + 1, argv.reposlugs[n + 1], strategy, rules,
                    argv.dry_run, Progress(stdout, stderr, requests, remote)) # {}

\* The second page of a repository was refused: the issue of its first
\* page has been processed and the command ends with the GhiaError.
C26_Witness ==
    /\ argv # <<>> /\ ~argv.asynchronous
    /\ exit_code = <<10>>
    /\ Len(Gets) >= 2
    /\ Len(HeaderTasks) >= 1
    /\ raise_for_status(requests[Len(requests)])

(***************************************************************************)
(* C28.  For every repository, whatever the number of its pages of issues  *)
(* (one, several, ten and more), the async mode fetches the same set of    *)
(* pages and processes the same set of issues as the sequential mode, each *)
(* issue once.                                                             *)
(***************************************************************************)
\* The pages of the reposlug at position i that the run has been given in
\* answer to a GET, and how often the task of i has printed the header of
\* an issue.
PagesFetched(i) ==
    LET reposlug == argv.reposlugs[i]
        urls == {issues_url(reposlug)}
                    \cup {page_url(reposlug, n) : n \in DOMAIN Repositories[reposlug]}
    IN {page_number(reposlug, requests[m].url) :
            m \in {x \in DOMAIN requests :
                    /\ requests[x].method = "GET" /\ requests[x].url \in urls
                    /\ ~raise_for_status(requests[x])}}

\* The pages the sequential mode fetches: those it asks for and is given.
SequentialPages(reposlug) ==
    {n \in 1..PagesAsked(reposlug) : Repositories[reposlug][n].status < 400}

TimesProcessed(i, url) == Count(HeaderTasks, <<i, url>>)

C28_AsyncFetchesWhatSequentialDoes ==
    (argv # <<>> /\ argv.asynchronous /\ exit_code # <<>>) =>
        \A i \in DOMAIN argv.reposlugs :
            LET reposlug == argv.reposlugs[i]
                sequential == IssuesOfPages(reposlug, PagesAsked(reposlug))
            IN /\ PagesFetched(i) = SequentialPages(reposlug)
               /\ \A k \in DOMAIN sequential : TimesProcessed(i, sequential[k]) = 1
               /\ \A k \in DOMAIN HeaderTasks :
                    HeaderTasks[k][1] = i => HeaderTasks[k][2] \in Range(sequential)

(***************************************************************************)
(* C27.  The messages returned by process_issue list the assignee entries  *)
(* of the strategy first and the fallback entry, if there is one, last;    *)
(* there is never more than one fallback entry.                            *)
(***************************************************************************)
C27_FallbackEntryLast ==
    \A k \in DOMAIN echoes :
        IF k < Len(echoes) THEN IsAssigneeEcho(echoes[k])
        ELSE IsAssigneeEcho(echoes[k]) \/ IsFallbackEcho(echoes[k])

C27_Witness ==
    /\ pc = "processed"
    /\ Len(echoes) >= 2
    /\ IsAssigneeEcho(echoes[1])
    /\ IsFallbackEcho(echoes[Len(echoes)])


(***************************************************************************)
(* C29.  When a webhook secret is configured, only a POST that carried a   *)
(* valid X-Hub-Signature reaches the dispatch on the event (an issue is    *)
(* processed or a PATCH sent only then): a POST with no X-Hub-Signature    *)
(* header, or with one that is not of the form "<digest>=<hex>", never     *)
(* reaches it.                                                             *)
(***************************************************************************)
\* The dispatch of web.py:192-201 was reached: it built an Issue object or
\* gave one of its answers (a 200, the 400 of a KeyError, a 501).
ReachedDispatch ==
    \/ issue # <<>>
    \/ requests # <<>>
    \/ response.status \in {200, 400, 501}

C29_DispatchOnlyWhenSigned ==
    (pc = "answered" /\ request.method = "POST" /\ "secret" \in DOMAIN auth
        /\ ReachedDispatch) =>
        ("X-Hub-Signature" \in DOMAIN request.headers /\ SignatureIsHmac)

(***************************************************************************)
(* C30.  In the web application, when the PATCH of a handled issues event  *)
(* fails, the confirmation "was successfully updated" is not returned: the *)
(* HTTP error leaves process_post_issues (the answer is a 500); and when   *)
(* process_issue set neither flag, the confirmation is returned and no     *)
(* PATCH was sent.                                                         *)
(***************************************************************************)
\* process_issue was called on the issue of the request and returned.
ProcessIssueReturned ==
    /\ issue # <<>>
    /\ ~find_users_raises(old, rules)

PatchFailed == \E k \in DOMAIN requests : raise_for_status(requests[k])

C30_PatchFailurePropagates ==
    pc = "answered" =>
        /\ PatchFailed =>
            /\ response.status = 500
            /\ response.body # confirmation(issue)
            /\ remote = [labels |-> old.labels, assignees |-> old.assignees]
        /\ (ProcessIssueReturned /\ ~sends_patch(issue)) =>
            /\ requests = <<>>
            /\ response = [status |-> 200, body |-> confirmation(issue)]

C30_Witness ==
    /\ pc = "answered"
    /\ PatchFailed
    /\ response.status = 500

==============================================================================
